---- MODULE Spec2Model ----
(***************************************************************************)
(* Model of game-recommendations-api: the express handlers of server.ts    *)
(* (POST /games, POST /users/:userid/games/:gameid/relationship, GET       *)
(* /users, GET /games, GET /games/:gameId), the                            *)
(* Cypher statements they send to the graph store, gidFrom of gid.ts, and   *)
(* the draft recommendations query that server.ts carries in a comment.    *)
(*                                                                         *)
(* Strings that are transformed (game names, game ids) are sequences of    *)
(* one-character strings; opaque strings (user ids, relationship kinds)    *)
(* are TLA+ strings.                                                       *)
(*                                                                         *)
(* The graph store is neo4j.  One auto-commit session.run is one atomic    *)
(* step of the store: it either commits the whole statement or throws and  *)
(* commits nothing.  MERGE of a relationship between two bound nodes locks *)
(* both nodes, so match-or-create is atomic per (node, node) pair.         *)
(* driver.session() allocates a session object and performs no I/O.        *)
(***************************************************************************)
EXTENDS Integers, Sequences, FiniteSets, Bags, TLC

VARIABLES games, edges, reqs, raw, gid, rec

vars == <<games, edges, reqs, raw, gid, rec>>

----------------------------------------------------------------------------
(* Bounds *)

\* number of HTTP requests a behaviour receives (each may overlap the others)
MaxRequests == 2

\* longest game name handed to gidFrom
MaxNameLen == 5

----------------------------------------------------------------------------
(* gid.ts *)

LowerLetters == {"a", "b"}
UpperLetters == {"A"}
Digits == {"3"}

\* \w of a JavaScript regular expression: [A-Za-z0-9_]
IsWordChar(c) == c \in LowerLetters \cup UpperLetters \cup Digits \cup {"_"}

\* the characters names are built from: word characters and three non-word ones
Alphabet == {"A", "a", "3", "_", " ", "&", "-"}

\* String.prototype.toLowerCase, one character
LowerChar(c) == IF c = "A" THEN "a" ELSE c

toLowerCase(s) == [i \in 1..Len(s) |-> LowerChar(s[i])]

RECURSIVE SkipNonWord(_)
\* the rest of s after its leading run of non-word characters
SkipNonWord(s) ==
  IF s = <<>> \/ IsWordChar(Head(s)) THEN s ELSE SkipNonWord(Tail(s))

RECURSIVE ReplaceNonWordRuns(_)
\* s.replace(/\W+/g, '-'): every maximal run of non-word characters becomes one '-'
ReplaceNonWordRuns(s) ==
  IF s = <<>> THEN <<>>
  ELSE IF IsWordChar(Head(s)) THEN <<Head(s)>> \o ReplaceNonWordRuns(Tail(s))
  ELSE <<"-">> \o ReplaceNonWordRuns(SkipNonWord(Tail(s)))

RECURSIVE StripTrailingNonWord(_)
\* s.replace(/\W+$/, ''): the trailing run of non-word characters is removed
StripTrailingNonWord(s) ==
  IF s = <<>> \/ IsWordChar(s[Len(s)]) THEN s
  ELSE StripTrailingNonWord(SubSeq(s, 1, Len(s) - 1))

\* gidFrom without the second replace: a trailing separator survives
gidFromKeepTrailing(name) ==
  LET converted == ReplaceNonWordRuns(toLowerCase(name))
  IN  <<"g", "i", "d">>
        \o (IF converted # <<>> /\ Head(converted) = "-" THEN <<>> ELSE <<"-">>)
        \o converted

gidFrom(name) ==
  LET converted == StripTrailingNonWord(ReplaceNonWordRuns(toLowerCase(name)))
  IN  <<"g", "i", "d">>
        \o (IF converted # <<>> /\ Head(converted) = "-" THEN <<>> ELSE <<"-">>)
        \o converted

----------------------------------------------------------------------------
(* server.ts: vocabulary *)

VALID_RELATIONSHIPS ==
  {"COMPLETE_100", "BEATEN", "SET_ASIDE_ENJOYED", "SET_ASIDE", "GOT_BORED",
   "WOULD_NOT_LIKE"}

\* the table with SET_ASIDE given the distance of SET_ASIDE_ENJOYED
RELATIONSHIP_DISTANCES_SHARED ==
  [k \in VALID_RELATIONSHIPS |->
     CASE k = "COMPLETE_100" -> 1
       [] k = "BEATEN" -> 2
       [] k = "SET_ASIDE_ENJOYED" -> 3
       [] k = "SET_ASIDE" -> 3
       [] k = "GOT_BORED" -> 8
       [] k = "WOULD_NOT_LIKE" -> 13]

RELATIONSHIP_DISTANCES ==
  [k \in VALID_RELATIONSHIPS |->
     CASE k = "COMPLETE_100" -> 1
       [] k = "BEATEN" -> 2
       [] k = "SET_ASIDE_ENJOYED" -> 3
       [] k = "SET_ASIDE" -> 5
       [] k = "GOT_BORED" -> 8
       [] k = "WOULD_NOT_LIKE" -> 13]

----------------------------------------------------------------------------
(* The graph and the inputs of the requests *)

\* User nodes; they are created out of band and keyed by id
Users == {"u1", "u2"}

\* :userid of a request: the users that exist and one that does not (express
\* matches the route only when :userid and :gameid are non-empty)
UserIdInputs == Users \cup {"u9"}

\* body.name of POST /games; <<>> is a missing name.  "A" and "a&" have the same gid
GameNameInputs == {<<"A">>, <<"a", "&">>, <<>>}

\* :gameid of a request
GameIdInputs == {gidFrom(n) : n \in GameNameInputs \ {<<>>}}

\* body.relationship: the six kinds, one in the wrong case, and a missing one
RelationshipInputs == VALID_RELATIONSHIPS \cup {"beaten", ""}

\* what the database holds when the server starts: no game, or the game that
\* an earlier POST /games request for "A" has created
StoredGames ==
  {<<>>, <<[id |-> gidFrom(<<"A">>), name |-> <<"A">>]>>}

\* the names gidFrom is applied to: every non-empty name up to MaxNameLen
Names == UNION {[1..n -> Alphabet] : n \in 1..MaxNameLen}

Slots == 1..MaxRequests

Idle ==
  [route |-> "none", pc |-> "idle", userId |-> "", gameId |-> <<>>,
   relationship |-> "", name |-> <<>>, status |-> 0, queries |-> 0,
   result |-> "none", session |-> "none", tx |-> "none", limit |-> 0,
   offset |-> 0, body |-> <<>>]

\* game nodes that carry the id
GameNodes(gs, gameId) == {i \in DOMAIN gs : gs[i].id = gameId}

\* user nodes that carry the id
UserNodes(userId) == {u \in Users : u = userId}

Edge(u, g, type, dist) == [from |-> u, to |-> g, type |-> type, dist |-> dist]

\* CREATE (:Game { id: $id, name: $name })
CreateGame(gs, id, name) == Append(gs, [id |-> id, name |-> name])

\* the rows of MATCH (u:User {id: $userId}), (g:Game {id: $gameId})
MatchUserGame(gs, userId, gameId) == UserNodes(userId) \X GameNodes(gs, gameId)

\* CREATE in place of MERGE: a relationship is created for every row
CreateEdge(es, gs, userId, gameId, relationship, dist) ==
  es (+) SetToBag({Edge(row[1], row[2], relationship, dist) :
                     row \in MatchUserGame(gs, userId, gameId)})

\* a MERGE whose pattern leaves out the type: nothing is created when any
\* relationship already joins u to g
MergeEdgeAnyType(es, gs, userId, gameId, relationship, dist) ==
  es (+) SetToBag({e \in {Edge(row[1], row[2], relationship, dist) :
                            row \in MatchUserGame(gs, userId, gameId)} :
                     \A old \in BagToSet(es) :
                        ~(old.from = e.from /\ old.to = e.to)})

\* a replace in place of a merge: the relationships that joined u to g are
\* dropped and the new one is created
MergeEdgeReplace(es, gs, userId, gameId, relationship, dist) ==
  LET rows == MatchUserGame(gs, userId, gameId)
      kept == {old \in BagToSet(es) : <<old.from, old.to>> \notin rows}
  IN  [old \in kept |-> es[old]]
        (+) SetToBag({Edge(row[1], row[2], relationship, dist) : row \in rows})

\* MATCH ... MERGE (u)-[:relationship {dist: $dist}]->(g): for every row the
\* relationship is created unless one of that type and dist already joins u to g
MergeEdge(es, gs, userId, gameId, relationship, dist) ==
  es (+) SetToBag({e \in {Edge(row[1], row[2], relationship, dist) :
                            row \in MatchUserGame(gs, userId, gameId)} :
                     ~BagIn(e, es)})

----------------------------------------------------------------------------
(* Requests *)

\* a request arrives in the next free slot
CanStart(s) ==
  /\ reqs[s].pc = "idle"
  /\ IF s = 1 THEN TRUE ELSE reqs[s - 1].pc # "idle"

\* POST /games up to its first await.  The session middleware has opened the
\* session; on the 400 path next() reaches the cleanup middleware.
PostGames(s, name) ==
  /\ CanStart(s)
  /\ IF name = <<>>
     THEN reqs' = [reqs EXCEPT ![s] =
            [Idle EXCEPT !.route = "postGames", !.pc = "done", !.name = name,
                         !.status = 400, !.session = "closed"]]
     ELSE reqs' = [reqs EXCEPT ![s] =
            [Idle EXCEPT !.route = "postGames", !.pc = "awaiting",
                         !.name = name, !.gameId = gidFrom(name),
                         !.queries = 1, !.session = "open"]]
  /\ UNCHANGED <<games, edges, raw, gid, rec>>

\* the CREATE commits and the handler answers with the game
PostGamesRun(s) ==
  /\ reqs[s].route = "postGames"
  /\ reqs[s].pc = "awaiting"
  /\ games' = CreateGame(games, reqs[s].gameId, reqs[s].name)
  /\ reqs' = [reqs EXCEPT ![s].pc = "done", ![s].result = "ok",
                          ![s].status = 200]
  /\ UNCHANGED <<edges, raw, gid, rec>>

\* a catch block that sends the query again instead of answering
RetryRunError(r) ==
  [r EXCEPT !.pc = "awaiting", !.queries = @ + 1]

\* catch (error) { console.error(error); res.status(500).json(...) }
CatchRunError(r) ==
  [r EXCEPT !.pc = "done", !.status = 500]

\* the store throws and the catch block answers 500
PostGamesFail(s) ==
  /\ reqs[s].route = "postGames"
  /\ reqs[s].pc = "awaiting"
  /\ reqs' = [reqs EXCEPT ![s] = CatchRunError([reqs[s] EXCEPT !.result = "error"])]
  /\ UNCHANGED <<games, edges, raw, gid, rec>>

\* a validation that compares without regard to case
IsValidRelationshipIgnoreCase(relationship) ==
  relationship \in VALID_RELATIONSHIPS \cup {"beaten"}

\* VALID_RELATIONSHIPS.has(relationship)
IsValidRelationship(relationship) == relationship \in VALID_RELATIONSHIPS

\* the validation of the relationship POST: the message of the 400 or "ok"
Validate(userId, gameId, relationship) ==
  IF userId = "" THEN "Invalid userid"
  ELSE IF gameId = <<>> THEN "Invalid gameid"
  ELSE IF ~IsValidRelationship(relationship) THEN "Invalid relationship"
  ELSE "ok"

\* POST /users/:userid/games/:gameid/relationship up to its first await
PostRelationship(s, userId, gameId, relationship) ==
  /\ CanStart(s)
  /\ IF Validate(userId, gameId, relationship) # "ok"
     THEN reqs' = [reqs EXCEPT ![s] =
            [Idle EXCEPT !.route = "postRelationship", !.pc = "done",
                         !.userId = userId, !.gameId = gameId,
                         !.relationship = relationship,
                         !.status = 400, !.session = "closed"]]
     ELSE reqs' = [reqs EXCEPT ![s] =
            [Idle EXCEPT !.route = "postRelationship", !.pc = "awaiting",
                         !.userId = userId, !.gameId = gameId,
                         !.relationship = relationship,
                         !.queries = 1, !.session = "open"]]
  /\ UNCHANGED <<games, edges, raw, gid, rec>>

\* the MATCH ... MERGE commits and the handler answers 200
PostRelationshipRun(s) ==
  /\ reqs[s].route = "postRelationship"
  /\ reqs[s].pc = "awaiting"
  /\ edges' = MergeEdge(edges, games, reqs[s].userId, reqs[s].gameId,
                        reqs[s].relationship,
                        RELATIONSHIP_DISTANCES[reqs[s].relationship])
  /\ reqs' = [reqs EXCEPT ![s].pc = "done", ![s].result = "ok",
                          ![s].status = 200]
  /\ UNCHANGED <<games, raw, gid, rec>>

\* the store throws and the catch block answers 500
PostRelationshipFail(s) ==
  /\ reqs[s].route = "postRelationship"
  /\ reqs[s].pc = "awaiting"
  /\ reqs' = [reqs EXCEPT ![s] = CatchRunError([reqs[s] EXCEPT !.result = "error"])]
  /\ UNCHANGED <<games, edges, raw, gid, rec>>

\* no recommendations query has been run
NoRec == [userId |-> "", rows |-> <<>>, done |-> FALSE]

Init ==
  /\ games \in StoredGames
  /\ edges = EmptyBag
  /\ reqs = [s \in Slots |-> Idle]
  /\ raw = <<>>
  /\ gid = <<>>
  /\ rec = NoRec

Next ==
  \/ \E s \in Slots, name \in GameNameInputs : PostGames(s, name)
  \/ \E s \in Slots : PostGamesRun(s)
  \/ \E s \in Slots : PostGamesFail(s)
  \/ \E s \in Slots, userId \in UserIdInputs, gameId \in GameIdInputs,
        relationship \in RelationshipInputs :
       PostRelationship(s, userId, gameId, relationship)
  \/ \E s \in Slots : PostRelationshipRun(s)
  \/ \E s \in Slots : PostRelationshipFail(s)

Spec == Init /\ [][Next]_vars

----------------------------------------------------------------------------
(* gidFrom on its own: a name is drawn and gidFrom is applied to it *)

ApplyGidFrom ==
  /\ gid = <<>>
  /\ gid' = gidFrom(raw)
  /\ UNCHANGED <<games, edges, reqs, raw, rec>>

InitGid ==
  /\ games = <<>>
  /\ edges = EmptyBag
  /\ reqs = [s \in Slots |-> Idle]
  /\ raw \in Names
  /\ gid = <<>>
  /\ rec = NoRec

NextGid == ApplyGidFrom

SpecGid == InitGid /\ [][NextGid]_vars

----------------------------------------------------------------------------
(* The draft recommendations query (GET /users/:userid/recommendations) *)

\* the kinds the relationships of the queried graphs are drawn from
RecKinds == {"COMPLETE_100", "BEATEN"}

\* the game nodes of the queried graphs, as POST /games creates them
RecGames ==
  <<[id |-> gidFrom(<<"a">>), name |-> <<"a">>],
    [id |-> gidFrom(<<"3">>), name |-> <<"3">>],
    [id |-> gidFrom(<<"b">>), name |-> <<"b">>]>>

\* the relationships the relationship POST can have merged into such a graph;
\* a graph holds any of them, each once
RecEdges ==
  {Edge(u, g, k, RELATIONSHIP_DISTANCES[k]) :
     u \in Users, g \in DOMAIN RecGames, k \in RecKinds}

\* match (a:User {id: $userId})-[b]->(c:Game)<-[d]-(e:User)-[f]->(g:Game)
\* with no restriction on g: games a is connected to are matched as well
RecPathsAnyGame(es, gs, userId) ==
  {p \in [b : BagToSet(es), d : BagToSet(es), f : BagToSet(es)] :
     /\ p.b.from \in UserNodes(userId)
     /\ p.d.to = p.b.to
     /\ p.f.from = p.d.from
     /\ p.b # p.d /\ p.d # p.f /\ p.b # p.f
     /\ p.b.dist = p.d.dist}

\* match (a:User {id: $userId})-[b]->(c:Game)<-[d]-(e:User)-[f]->(g:Game)
\* where not (a)-[]->(g) and b.dist = d.dist
\* A relationship is bound at most once in a pattern, so b, d and f differ.
RecPaths(es, gs, userId) ==
  {p \in [b : BagToSet(es), d : BagToSet(es), f : BagToSet(es)] :
     /\ p.b.from \in UserNodes(userId)
     /\ p.d.to = p.b.to
     /\ p.f.from = p.d.from
     /\ p.b # p.d /\ p.d # p.f /\ p.b # p.f
     /\ ~\E x \in BagToSet(es) : x.from = p.b.from /\ x.to = p.f.to
     /\ p.b.dist = p.d.dist}

\* with sum(b.dist + d.dist + f.dist) as dist, a, b, c, d, e, f, g: every group
\* is one path, so dist is the cost of the path
PathDist(p) == p.b.dist + p.d.dist + p.f.dist

Min(S) == CHOOSE x \in S : \A y \in S : x <= y

RECURSIVE SumOf(_)
SumOf(S) == IF S = {} THEN 0 ELSE LET x == CHOOSE y \in S : TRUE
                                  IN  PathDist(x) + SumOf(S \ {x})

\* the reason columns of a path: collect(c), collect(type(b)), collect(type(d))
\* are three lists whose indices correspond
Reason(p) == [game |-> p.b.to, rel |-> p.b.type, rel_other |-> p.d.type]

\* an aggregation that adds the costs of the paths of a game
RecRowsSum(paths) ==
  {[mDist |-> SumOf({p \in paths : p.f.to = g}),
    rec |-> g,
    reasons |-> BagOfAll(Reason, SetToBag({p \in paths : p.f.to = g}))] :
     g \in {p.f.to : p \in paths}}

\* return distinct min(dist) as mDist, g as rec, collect(c), collect(type(b)),
\* collect(type(d)): one row per game g, aggregated over the paths that end in g
RecRows(paths) ==
  {[mDist |-> Min({PathDist(p) : p \in {q \in paths : q.f.to = g}}),
    rec |-> g,
    reasons |-> BagOfAll(Reason, SetToBag({p \in paths : p.f.to = g}))] :
     g \in {p.f.to : p \in paths}}

\* ORDER BY mDist: the orders in which the store may return the rows; rows
\* with the same mDist come in an order the query does not determine
OrderByMDist(rows) ==
  {sq \in [1..Cardinality(rows) -> rows] :
     /\ \A i, j \in DOMAIN sq : i # j => sq[i] # sq[j]
     /\ \A i, j \in DOMAIN sq : i < j => sq[i].mDist <= sq[j].mDist}

\* the query is run for userId and its records come back
Recommendations(userId) ==
  /\ ~rec.done
  /\ \E sq \in OrderByMDist(RecRows(RecPaths(edges, games, userId))) :
        rec' = [userId |-> userId, rows |-> sq, done |-> TRUE]
  /\ UNCHANGED <<games, edges, reqs, raw, gid>>

InitRec ==
  /\ games = RecGames
  /\ edges \in {SetToBag(S) : S \in SUBSET RecEdges}
  /\ reqs = [s \in Slots |-> Idle]
  /\ raw = <<>>
  /\ gid = <<>>
  /\ rec = NoRec

NextRec == \E userId \in UserIdInputs : Recommendations(userId)

SpecRec == InitRec /\ [][NextRec]_vars

----------------------------------------------------------------------------
(* The read handlers: GET /games/:gameId, GET /users, GET /games *)

\* the UTF-16 code unit of a character
CharCode(c) ==
  CASE c = " " -> 32 [] c = "&" -> 38 [] c = "-" -> 45 [] c = "3" -> 51
    [] c = "A" -> 65 [] c = "_" -> 95 [] c = "a" -> 97 [] c = "b" -> 98
    [] c = "d" -> 100 [] c = "g" -> 103 [] c = "i" -> 105

RECURSIVE LexLess(_, _)
\* s comes before t in lexical order
LexLess(s, t) ==
  IF t = <<>> THEN FALSE
  ELSE IF s = <<>> THEN TRUE
  ELSE IF Head(s) # Head(t) THEN CharCode(Head(s)) < CharCode(Head(t))
  ELSE LexLess(Tail(s), Tail(t))

\* a second Game node with the id of "A", as POST /games creates it for "a&"
ReadGames ==
  {<<>>,
   <<[id |-> gidFrom(<<"A">>), name |-> <<"A">>]>>,
   <<[id |-> gidFrom(<<"A">>), name |-> <<"A">>],
     [id |-> gidFrom(<<"a", "&">>), name |-> <<"a", "&">>]>>}

\* the relationships the read graphs draw from: any of RecKinds from any user
\* to the first game, and one from u1 to the second
ReadEdges(gs) ==
  {e \in {Edge(u, g, k, RELATIONSHIP_DISTANCES[k]) :
            u \in Users, g \in DOMAIN gs, k \in RecKinds} :
     e.to = 1 \/ (e.from = "u1" /\ e.type = "BEATEN")}

\* req.query.limit and req.query.offset after Number(... || default)
LimitInputs == {1, 25}
OffsetInputs == {0, 1}

\* ORDER BY u.name: the User nodes in the order of their names
UsersByName == <<"u1", "u2">>

\* ORDER BY n.name: the orders in which the store may return the Game nodes;
\* nodes of equal name come in an order the query does not determine
GamesByName(gs) ==
  {sq \in [1..Len(gs) -> DOMAIN gs] :
     /\ \A i, j \in DOMAIN sq : i # j => sq[i] # sq[j]
     /\ \A i, j \in DOMAIN sq : i < j => ~LexLess(gs[sq[j]].name, gs[sq[i]].name)}

\* SKIP $offset LIMIT $limit
Page(sq, offset, limit) ==
  SubSeq(sq, offset + 1, IF offset + limit < Len(sq) THEN offset + limit ELSE Len(sq))

\* the records of MATCH (n:Game { id: $gameId })<-[r]-(u:User)
GameUserRows(es, gs, gameId) ==
  {e \in BagToSet(es) : e.to \in GameNodes(gs, gameId)}

\* one entry of users: record.get('user') and record.get('relationship')
UserWithRelationship(e) == [user |-> e.from, relationship |-> e.type]

\* GET /games/:gameId up to its first await
GetGame(s, gameId) ==
  /\ CanStart(s)
  /\ IF gameId = <<>>
     THEN reqs' = [reqs EXCEPT ![s] =
            [Idle EXCEPT !.route = "getGame", !.pc = "done",
                         !.status = 400, !.session = "closed"]]
     ELSE reqs' = [reqs EXCEPT ![s] =
            [Idle EXCEPT !.route = "getGame", !.pc = "awaiting",
                         !.gameId = gameId, !.queries = 1,
                         !.session = "open"]]
  /\ UNCHANGED <<games, edges, raw, gid, rec>>

\* the MATCH returns its records.  With no record result.records[0] is
\* undefined, .get throws inside the try and the catch block answers 500;
\* otherwise the game of the first record and the users are sent
GetGameRun(s) ==
  /\ reqs[s].route = "getGame"
  /\ reqs[s].pc = "awaiting"
  /\ LET rows == GameUserRows(edges, games, reqs[s].gameId)
         r == [reqs[s] EXCEPT !.result = "ok"]
     IN  IF rows = {}
         THEN reqs' = [reqs EXCEPT ![s] = CatchRunError(r)]
         ELSE \E first \in rows :
                reqs' = [reqs EXCEPT ![s] =
                  [r EXCEPT !.pc = "done", !.status = 200,
                            !.body = [game |-> games[first.to],
                                      users |-> BagOfAll(UserWithRelationship,
                                                  [e \in rows |-> edges[e]])]]]
  /\ UNCHANGED <<games, edges, raw, gid, rec>>

\* the store throws and the catch block answers 500
GetGameFail(s) ==
  /\ reqs[s].route = "getGame"
  /\ reqs[s].pc = "awaiting"
  /\ reqs' = [reqs EXCEPT ![s] = CatchRunError([reqs[s] EXCEPT !.result = "error"])]
  /\ UNCHANGED <<games, edges, raw, gid, rec>>

\* GET /users up to its first await: the transaction is begun and both
\* tx.run are sent
GetUsers(s, limit, offset) ==
  /\ CanStart(s)
  /\ reqs' = [reqs EXCEPT ![s] =
       [Idle EXCEPT !.route = "getUsers", !.pc = "awaiting", !.tx = "open",
                    !.limit = limit, !.offset = offset, !.queries = 2,
                    !.session = "open"]]
  /\ UNCHANGED <<games, edges, raw, gid, rec>>

\* both queries return and the page is sent; the transaction is left as it is
GetUsersRun(s) ==
  /\ reqs[s].route = "getUsers"
  /\ reqs[s].pc = "awaiting"
  /\ reqs' = [reqs EXCEPT ![s] =
       [reqs[s] EXCEPT !.pc = "done", !.result = "ok", !.status = 200,
                       !.body = [users |-> Page(UsersByName, reqs[s].offset,
                                                reqs[s].limit),
                                 total |-> Cardinality(Users)]]]
  /\ UNCHANGED <<games, edges, raw, gid, rec>>

\* a query throws: the catch block answers 500 and rolls the transaction back
GetUsersFail(s) ==
  /\ reqs[s].route = "getUsers"
  /\ reqs[s].pc = "awaiting"
  /\ reqs' = [reqs EXCEPT ![s] =
       [CatchRunError([reqs[s] EXCEPT !.result = "error"])
          EXCEPT !.tx = "rolledback"]]
  /\ UNCHANGED <<games, edges, raw, gid, rec>>

\* GET /games up to its first await: the transaction is begun and both
\* tx.run are sent
GetGames(s, limit, offset) ==
  /\ CanStart(s)
  /\ reqs' = [reqs EXCEPT ![s] =
       [Idle EXCEPT !.route = "getGames", !.pc = "awaiting", !.tx = "open",
                    !.limit = limit, !.offset = offset, !.queries = 2,
                    !.session = "open"]]
  /\ UNCHANGED <<games, edges, raw, gid, rec>>

\* both queries return and the page is sent; the transaction is left as it is
GetGamesRun(s) ==
  /\ reqs[s].route = "getGames"
  /\ reqs[s].pc = "awaiting"
  /\ \E sq \in GamesByName(games) :
        reqs' = [reqs EXCEPT ![s] =
          [reqs[s] EXCEPT !.pc = "done", !.result = "ok", !.status = 200,
                          !.body = [games |-> [i \in DOMAIN Page(sq, reqs[s].offset, reqs[s].limit) |->
                                                 games[Page(sq, reqs[s].offset, reqs[s].limit)[i]]],
                                    total |-> Len(games)]]]
  /\ UNCHANGED <<games, edges, raw, gid, rec>>

\* a query throws: the catch block answers 500; the transaction is left as it is
GetGamesFail(s) ==
  /\ reqs[s].route = "getGames"
  /\ reqs[s].pc = "awaiting"
  /\ reqs' = [reqs EXCEPT ![s] = CatchRunError([reqs[s] EXCEPT !.result = "error"])]
  /\ UNCHANGED <<games, edges, raw, gid, rec>>

InitRead ==
  /\ games \in ReadGames
  /\ edges \in {SetToBag(S) : S \in SUBSET ReadEdges(games)}
  /\ reqs = [s \in Slots |-> Idle]
  /\ raw = <<>>
  /\ gid = <<>>
  /\ rec = NoRec

NextRead ==
  \/ \E s \in Slots, gameId \in GameIdInputs : GetGame(s, gameId)
  \/ \E s \in Slots : GetGameRun(s)
  \/ \E s \in Slots : GetGameFail(s)
  \/ \E s \in Slots, limit \in LimitInputs, offset \in OffsetInputs :
       GetUsers(s, limit, offset)
  \/ \E s \in Slots : GetUsersRun(s)
  \/ \E s \in Slots : GetUsersFail(s)
  \/ \E s \in Slots, limit \in LimitInputs, offset \in OffsetInputs :
       GetGames(s, limit, offset)
  \/ \E s \in Slots : GetGamesRun(s)
  \/ \E s \in Slots : GetGamesFail(s)

SpecRead == InitRead /\ [][NextRead]_vars

----------------------------------------------------------------------------
(* Properties *)

\* the relationships of one type from the user nodes with userId to the game
\* nodes with gameId
EdgesBetweenIds(userId, gameId, type) ==
  LET S == {e \in BagToSet(edges) :
              /\ e.from \in UserNodes(userId)
              /\ e.to \in GameNodes(games, gameId)
              /\ e.type = type}
  IN  [e \in S |-> edges[e]]

\* slot s has just had its MATCH ... MERGE committed
RelationshipCommitted(s) ==
  /\ reqs[s].route = "postRelationship"
  /\ reqs[s].pc = "awaiting"
  /\ reqs'[s].result = "ok"

\* slots s and t are two answered relationship POSTs for the same triple
SameTriple(s, t) ==
  /\ s # t
  /\ reqs[s].route = "postRelationship" /\ reqs[t].route = "postRelationship"
  /\ reqs[s].status = 200 /\ reqs[t].status = 200
  /\ reqs[s].userId = reqs[t].userId
  /\ reqs[s].gameId = reqs[t].gameId
  /\ reqs[s].relationship = reqs[t].relationship

\* C1: for every user id, game id and kind there is at most one edge of that
\* kind from that user to a game carrying that id.
C1_AtMostOneEdgePerKind ==
  \A userId \in UserIdInputs, gameId \in GameIdInputs, k \in VALID_RELATIONSHIPS :
     BagCardinality(EdgesBetweenIds(userId, gameId, k)) <= 1

\* C2: upsertEdge is idempotent: in every graph state, for every user id, game
\* id and valid kind, merging twice gives the graph that merging once gives.
C2_UpsertIdempotent ==
  \A userId \in UserIdInputs, gameId \in GameIdInputs, k \in VALID_RELATIONSHIPS :
     LET once == MergeEdge(edges, games, userId, gameId, k,
                           RELATIONSHIP_DISTANCES[k])
     IN  MergeEdge(once, games, userId, gameId, k, RELATIONSHIP_DISTANCES[k])
           = once

\* two requests for the same triple were both answered 200 and the pair they
\* name is joined by one edge of the kind
C2_Witness ==
  \E s, t \in Slots :
     /\ SameTriple(s, t)
     /\ BagCardinality(EdgesBetweenIds(reqs[s].userId, reqs[s].gameId,
                                       reqs[s].relationship)) = 1

\* C3: whatever was interleaved before it, when the merge of a request commits
\* every (user node, game node) pair the request names is joined by exactly one
\* edge of its kind, and the edges of every other (user, game) pair are as they
\* were.
C3_MergeSerialized ==
  [][\A s \in Slots :
       RelationshipCommitted(s) =>
         LET r == reqs[s]
             d == RELATIONSHIP_DISTANCES[r.relationship]
         IN  /\ \A row \in MatchUserGame(games, r.userId, r.gameId) :
                  CopiesIn(Edge(row[1], row[2], r.relationship, d), edges') = 1
             /\ \A e \in BagToSet(edges) \cup BagToSet(edges') :
                  ~(e.from = r.userId /\ games[e.to].id = r.gameId)
                    => CopiesIn(e, edges') = CopiesIn(e, edges)]_vars

\* two requests for the same triple have both committed, a third edge of
\* another pair exists or not, and the pair has exactly one edge of the kind
C3_Witness ==
  \E s, t \in Slots :
     /\ SameTriple(s, t)
     /\ MatchUserGame(games, reqs[s].userId, reqs[s].gameId) # {}
     /\ \A row \in MatchUserGame(games, reqs[s].userId, reqs[s].gameId) :
          CopiesIn(Edge(row[1], row[2], reqs[s].relationship,
                        RELATIONSHIP_DISTANCES[reqs[s].relationship]), edges) = 1

\* C4: upsertEdge only adds: a step of a relationship POST leaves the game
\* nodes and every edge that existed as they were, and when its merge commits
\* the pair has an edge of the new kind next to the edges of other kinds it had.
C4_UpsertAdditive ==
  [][\A s \in Slots :
       (reqs[s].route = "postRelationship" \/ reqs'[s].route = "postRelationship")
         /\ reqs'[s] # reqs[s] =>
           /\ games' = games
           /\ \A e \in BagToSet(edges) : CopiesIn(e, edges') = CopiesIn(e, edges)
           /\ RelationshipCommitted(s) =>
                \A row \in MatchUserGame(games, reqs[s].userId, reqs[s].gameId) :
                   \E e \in BagToSet(edges') :
                      /\ e.from = row[1] /\ e.to = row[2]
                      /\ e.type = reqs[s].relationship]_vars

\* a user node and a game node are joined by two edges of different kinds
C4_Witness ==
  \E e1, e2 \in BagToSet(edges) :
     /\ e1.from = e2.from /\ e1.to = e2.to /\ e1.type # e2.type
     /\ \E s, t \in Slots :
          /\ reqs[s].status = 200 /\ reqs[t].status = 200
          /\ reqs[s].relationship = e1.type /\ reqs[t].relationship = e2.type

\* the graph is touched by the step
GraphChanged == games' # games \/ edges' # edges

\* C5: a relationship POST whose kind is not one of the six kinds (compared
\* case-sensitively) is answered 400 without a query having been sent for it,
\* and the step that rejects it leaves the graph unchanged.
C5_InvalidKindRejected ==
  /\ [](\A s \in Slots :
          reqs[s].route = "postRelationship"
            /\ reqs[s].relationship \notin VALID_RELATIONSHIPS =>
              /\ reqs[s].pc = "done" /\ reqs[s].status = 400
              /\ reqs[s].queries = 0 /\ reqs[s].result = "none")
  /\ [][\A s \in Slots :
          reqs'[s] # reqs[s] /\ reqs'[s].relationship \notin VALID_RELATIONSHIPS
            /\ reqs'[s].route = "postRelationship" => ~GraphChanged]_vars

\* a request with the kind in the wrong case has been rejected
C5_Witness ==
  \E s \in Slots :
     /\ reqs[s].route = "postRelationship"
     /\ reqs[s].relationship = "beaten"
     /\ reqs[s].status = 400 /\ reqs[s].queries = 0

\* C6: whenever the relationship POST reports success for (userId, gameId,
\* kind), an edge of that kind from that user to that game exists.
C6_SuccessMeansEdge ==
  \A s \in Slots :
     reqs[s].route = "postRelationship" /\ reqs[s].status = 200 =>
       BagCardinality(EdgesBetweenIds(reqs[s].userId, reqs[s].gameId,
                                      reqs[s].relationship)) >= 1

\* C7: a request sends at most one query; when the store fails the request is
\* answered 500 with no second query, and the failing step leaves the graph
\* as it was.
C7_StoreFailureNotRetried ==
  /\ [](\A s \in Slots :
          /\ reqs[s].queries <= 1
          /\ reqs[s].route = "postRelationship" /\ reqs[s].result = "error" =>
               reqs[s].pc = "done" /\ reqs[s].status = 500)
  /\ [][\A s \in Slots :
          reqs[s].route = "postRelationship" /\ reqs[s].pc = "awaiting"
            /\ reqs'[s].result = "error" =>
              /\ ~GraphChanged
              /\ reqs'[s].queries = reqs[s].queries]_vars

\* the store has failed a relationship POST that named an existing pair
C7_Witness ==
  \E s \in Slots :
     /\ reqs[s].route = "postRelationship"
     /\ reqs[s].result = "error" /\ reqs[s].status = 500
     /\ MatchUserGame(games, reqs[s].userId, reqs[s].gameId) # {}
     /\ edges = EmptyBag

\* the canonical table of the kinds and their distances
CanonicalDistances ==
  {<<"COMPLETE_100", 1>>, <<"BEATEN", 2>>, <<"SET_ASIDE_ENJOYED", 3>>,
   <<"SET_ASIDE", 5>>, <<"GOT_BORED", 8>>, <<"WOULD_NOT_LIKE", 13>>}

\* C8: every kind the validation accepts has a positive integer distance, the
\* distances are the canonical ones, no two kinds share one, and every edge of
\* the graph carries the distance of its label.
C8_CanonicalDistance ==
  /\ \A k \in RelationshipInputs :
        IsValidRelationship(k) =>
          /\ k \in DOMAIN RELATIONSHIP_DISTANCES
          /\ RELATIONSHIP_DISTANCES[k] \in Nat \ {0}
          /\ <<k, RELATIONSHIP_DISTANCES[k]>> \in CanonicalDistances
  /\ \A k1, k2 \in DOMAIN RELATIONSHIP_DISTANCES :
        k1 # k2 => RELATIONSHIP_DISTANCES[k1] # RELATIONSHIP_DISTANCES[k2]
  /\ \A e \in BagToSet(edges) : <<e.type, e.dist>> \in CanonicalDistances

\* edges of the nearest and of the farthest kind have been written
C8_Witness ==
  /\ \E e \in BagToSet(edges) : e.type = "WOULD_NOT_LIKE" /\ e.dist = 13
  /\ \E e \in BagToSet(edges) : e.type = "SET_ASIDE" /\ e.dist = 5

\* C9: the graph holds at most one Game node per id.
C9_OneGamePerId ==
  \A i, j \in DOMAIN games : games[i].id = games[j].id => i = j

RECURSIVE TakeWord(_)
\* the leading run of word characters of s
TakeWord(s) ==
  IF s = <<>> \/ ~IsWordChar(Head(s)) THEN <<>>
  ELSE <<Head(s)>> \o TakeWord(Tail(s))

RECURSIVE WordRuns(_)
\* the maximal runs of word characters of s, in order
WordRuns(s) ==
  IF s = <<>> THEN <<>>
  ELSE IF IsWordChar(Head(s))
       THEN <<TakeWord(s)>> \o WordRuns(SubSeq(s, Len(TakeWord(s)) + 1, Len(s)))
       ELSE WordRuns(Tail(s))

RECURSIVE JoinRuns(_)
\* the runs lower-cased and joined by single "-"
JoinRuns(runs) ==
  IF runs = <<>> THEN <<>>
  ELSE IF Len(runs) = 1 THEN toLowerCase(runs[1])
  ELSE toLowerCase(runs[1]) \o <<"-">> \o JoinRuns(Tail(runs))

HasDoubleDash(s) == \E i \in 1..(Len(s) - 1) : s[i] = "-" /\ s[i + 1] = "-"

GidPrefix == <<"g", "i", "d", "-">>

\* C10 as stated: gidFrom(name) is "gid-" followed by the lower-cased word
\* runs joined by "-", and it never ends in "-" and never has "--".
C10_GidNeverEndsInDash ==
  gid # <<>> =>
    /\ gid = GidPrefix \o JoinRuns(WordRuns(raw))
    /\ gid[Len(gid)] # "-"
    /\ ~HasDoubleDash(gid)

\* C10 amended: gidFrom(name) is "gid-" followed by the lower-cased word runs
\* joined by "-"; it never has "--", and it ends in "-" only for a name with no
\* word character, for which it is exactly "gid-".
C10_GidFromWordRuns ==
  gid # <<>> =>
    /\ gid = GidPrefix \o JoinRuns(WordRuns(raw))
    /\ ~HasDoubleDash(gid)
    /\ gid[Len(gid)] = "-" =>
         /\ gid = GidPrefix
         /\ \A i \in 1..Len(raw) : ~IsWordChar(raw[i])

\* a name with a leading run, an upper-case letter and an internal run of two
\* characters has been converted
C10_Witness ==
  /\ raw = <<"&", "A", "&", " ", "3">>
  /\ gid = <<"g", "i", "d", "-", "a", "-", "3">>

\* the costs d1 + d2 + d3 of the qualifying paths u -(d1)-> g <-(d2)- v -(d3)-> g'
\* from the user to the target: v is another user and d1 = d2
QualifyingCosts(userId, target) ==
  {t[1].dist + t[2].dist + t[3].dist :
     t \in {x \in BagToSet(edges) \X BagToSet(edges) \X BagToSet(edges) :
              /\ x[1].from = userId
              /\ x[2].to = x[1].to /\ x[2].from # userId
              /\ x[2].dist = x[1].dist
              /\ x[3].from = x[2].from /\ x[3].to = target}}

\* the user has an edge to the game
Connected(userId, g) == \E e \in BagToSet(edges) : e.from = userId /\ e.to = g

C13_OrderedWithTieBreak ==
  rec.done =>
    \A i, j \in DOMAIN rec.rows :
       i < j =>
         \/ rec.rows[i].mDist < rec.rows[j].mDist
         \/ /\ rec.rows[i].mDist = rec.rows[j].mDist
            /\ LexLess(games[rec.rows[i].rec].id, games[rec.rows[j].rec].id)

\* C14: GET /games/:gameId answers every request for a game that exists in the
\* graph with the game and all the users mapped to it, also when no user has
\* an edge to it (an empty users list, not an error).
C14_ExistingGameReturned ==
  \A s \in Slots :
     /\ reqs[s].route = "getGame"
     /\ reqs[s].pc = "done"
     /\ reqs[s].result = "ok"
     /\ GameNodes(games, reqs[s].gameId) # {}
     => /\ reqs[s].status = 200
        /\ reqs[s].body.game.id = reqs[s].gameId
        /\ BagToSet(reqs[s].body.users)
             = {UserWithRelationship(e) :
                  e \in GameUserRows(edges, games, reqs[s].gameId)}

\* C15: the session of every request that has been answered is closed, on the
\* success path, the 400 path and the 500 path.
C15_SessionsClosed ==
  \A s \in Slots : reqs[s].pc = "done" => reqs[s].session = "closed"

\* C16: the transaction of every list request that has been answered is
\* committed or rolled back, on the success path and on the failure path.
C16_TransactionsFinished ==
  \A s \in Slots :
     reqs[s].route \in {"getUsers", "getGames"} /\ reqs[s].pc = "done" =>
       reqs[s].tx \in {"committed", "rolledback"}

====
